---- MODULE Spec2Model ----
(***************************************************************************)
(* Model of the voice-driven browser agent's orchestration layer:          *)
(*   src/hooks/useLiveAPI.ts  - the useLiveAPI hook: the bridge socket to  *)
(*                              the automation backend (connectToBrowser), *)
(*                              the tool dispatcher (executeTool), and the *)
(*                              Live session (connect, its callbacks with  *)
(*                              the playback timeline, disconnect);        *)
(*   src/server/index.js      - the automation backend's message handler.  *)
(*                                                                         *)
(* Time is not measured: a timer that is armed may expire at any later     *)
(* step, except that two timers armed with delays d1 <= d2, the first one  *)
(* armed first, expire in that order (the browser's timer queue).          *)
(***************************************************************************)
EXTENDS Naturals, Sequences, FiniteSets

(* ---------------------------------------------------------------- bounds *)

\* Number of executeTool calls made during one run of the model.
MaxCalls == 2

Calls == 1..MaxCalls

\* Number of malformed frames the bridge socket's peer sends during one run.
MaxJunk == 1

\* Number of Live sessions ai.live.connect makes during one run.
MaxSessions == 2

Sessions == 1..MaxSessions

\* Number of messages the Live sessions deliver during one run.
MaxMsgs == 2

Msgs == 1..MaxMsgs

\* The output clock is followed up to this time.
MaxClock == 2

\* Samples of a captured frame are multiples of 1/Unit, and so is the
\* loudness: Unit stands for 1.0.
Unit == 4

\* The largest magnitude of a sample, in multiples of 1/Unit.
MaxSample == 2

\* Samples in a captured frame (the script processor's buffer has 4096).
FrameLen == 2

(* ------------------------------------------------------- program values *)

\* The five tools of the catalog (TOOLS) and one name outside it.
CatalogTools == {"openCalendar", "openEmail", "checkAvailability", "bookMeeting", "sendEmail"}

UnknownTool == "launchRocket"

ToolNames == CatalogTools \cup {UnknownTool}

\* The argument bag of a call: absent (fc.args is optional), or an object.
NoArgs == [absent |-> TRUE]

SomeArgs == [title |-> "Sync", to |-> "Ann"]

ArgBags == {NoArgs, SomeArgs}

\* The outcomes of Math.random().toString(36).substring(7): a short string
\* of base-36 digits, not checked against the identifiers in use, and empty
\* when the expansion of the number is short (0.5 is "0.i").
RequestIds == {"", "a", "b"}

\* JavaScript truthiness of a string.
Truthy(s) == s # ""

NoResult == [status |-> "pending"]

TimedOutResult == [status |-> "error", message |-> "Browser timed out"]

ToolNotFoundResult == [status |-> "error", message |-> "Tool not found"]

\* No function call: the call was not made by a session message.
NoFc == [id |-> <<>>, name |-> "none"]

\* Entries of the activity log (addLog): type and message.
LogEntry(type, message) == [type |-> type, message |-> message]

NoEntry == LogEntry("none", "")

\* Durations of the audio chunks, in ticks of the output clock.
Durations == {1, 2}

InitialEvents == <<"Team Sync", "Lunch with Sarah">>

InitialEmails == <<"Project Update", "Weekly Digest">>

CalendarUrl == "https://calendar.agent/view"

InboxUrl == "https://mail.agent/inbox"

SentUrl == "https://mail.agent/sent"

(* ---------------------------------------------------------------- state *)

VARIABLES
  wsState,          \* browserWsRef.current.readyState
  reconnectTimers,  \* number of armed reconnect timers (setTimeout(connectToBrowser, 3000))
  isConnected,      \* browserState.isConnected
  url,              \* browserState.url
  page,             \* browserState.page
  isLoading,        \* browserState.isLoading
  screenshot,       \* browserState.screenshot
  pendingRequests,  \* pendingRequestsRef.current: request id -> the call whose resolve is stored
  callState,        \* per executeTool call: idle, awaiting, simwait, returned, rejected
  callTool,         \* the call's name argument, until the call returns
  callArgs,         \* the call's args argument, while the simulation still reads it
  requestId,        \* the call's requestId (bridge path)
  callResult,       \* the value the call's promise resolved with
  resolveCount,     \* how many times the call's resolve function has been invoked
  safetyTimer,      \* the call's 5 s safety timeout is armed
  up,               \* messages in flight, hook -> backend
  down,             \* messages in flight, backend -> hook
  srvConn,          \* backend's side of the connection: none, greeting, ready
  jobs,             \* backend message handlers suspended at an await
  currentEvents,    \* backend's currentEvents (titles)
  droppedFrames,    \* frames ws.onmessage has handled without acting on them
  connected,        \* the hook's connected state (useState)
  micRequests,      \* connect() invocations suspended at getUserMedia
  mediaStream,      \* mediaStreamRef.current is a stream (not null)
  outputCtx,        \* outputAudioContextRef.current: null, running, closed
  clock,            \* currentTime of the output context
  session,          \* per Live session made by ai.live.connect: none, connecting, open, closed
  sessionRef,       \* sessionPromiseRef.current: the session it resolves to, 0 for null
  discAwait,        \* the session a suspended disconnect() awaits, 0 when none is suspended
  hPc,              \* per session message: position of its onmessage handler
  hCalls,           \* the function calls of the message not yet answered, the one in flight first
  hDone,            \* how many function calls of the message have returned
  hCall,            \* the executeTool call the handler awaits
  hAudio,           \* duration of the message's audio chunk, 0 when it carries none
  decodeQueue,      \* handlers suspended at decodeAudioData, in the order they suspended
  nextStartTime,    \* nextStartTimeRef.current
  sources,          \* sourcesRef.current: messages whose source is in the active set
  chunks,           \* every source.start so far: message, start time, duration, clock at the call
  callFc,           \* per executeTool call: the function call (id, name) it serves
  responses,        \* sendToolResponse callbacks registered, in order
  sessionLog,       \* the latest entry connect, disconnect or a session callback added to the log
  discRaised,       \* a disconnect() has ended by throwing
  capturing,        \* onaudioprocess is attached to the current input context
  inputData,        \* the samples of the latest captured frame
  volume,           \* the hook's volume state (useState)
  mounted           \* the component using the hook is mounted

bridgeVars == <<wsState, reconnectTimers, isConnected>>

viewVars == <<url, page, isLoading, screenshot>>

callVars == <<callState, callTool, callArgs, requestId, callResult, resolveCount, safetyTimer>>

serverVars == <<srvConn, jobs, currentEvents>>

dispatchVars ==
  <<wsState, reconnectTimers, isConnected, url, page, isLoading, screenshot,
    pendingRequests, callState, callTool, callArgs, requestId, callResult,
    resolveCount, safetyTimer, up, down, srvConn, jobs, currentEvents,
    droppedFrames>>

lifeVars == <<connected, micRequests, mediaStream, session, sessionRef, discAwait>>

handlerVars == <<hPc, hCalls, hDone, hCall, hAudio, callFc, responses>>

playVars == <<outputCtx, clock, decodeQueue, nextStartTime, sources, chunks>>

logVars == <<sessionLog, discRaised>>

captureVars == <<capturing, inputData, volume>>

sessionVars == <<lifeVars, handlerVars, playVars, logVars, captureVars>>

\* What the bridge, the dispatcher and the backend leave alone.
hookVars == <<sessionVars, mounted>>

vars == <<dispatchVars, sessionVars, mounted>>

(* ------------------------------------------------ the pending registry *)

EmptyMap == [k \in {} |-> 0]

MapHas(m, k) == k \in DOMAIN m

MapSet(m, k, v) == [x \in (DOMAIN m) \cup {k} |-> IF x = k THEN v ELSE m[x]]

MapDelete(m, k) == [x \in (DOMAIN m) \ {k} |-> m[x]]

(* ----------------------------------------------------------------- Init *)

\* The state after the hook has mounted: useState's initial values, empty
\* refs, and the effect's first connectToBrowser() has created the socket.
Init ==
  /\ wsState = "CONNECTING"
  /\ reconnectTimers = 0
  /\ isConnected = FALSE
  /\ url = "about:blank"
  /\ page = "dashboard"
  /\ isLoading = FALSE
  /\ screenshot = "none"
  /\ pendingRequests = EmptyMap
  /\ callState = [r \in Calls |-> "idle"]
  /\ callTool = [r \in Calls |-> "none"]
  /\ callArgs = [r \in Calls |-> NoArgs]
  /\ requestId = [r \in Calls |-> ""]
  /\ callResult = [r \in Calls |-> NoResult]
  /\ resolveCount = [r \in Calls |-> 0]
  /\ safetyTimer = [r \in Calls |-> FALSE]
  /\ up = <<>>
  /\ down = <<>>
  /\ srvConn = "none"
  /\ jobs = <<>>
  /\ currentEvents = InitialEvents
  /\ droppedFrames = 0
  /\ connected = FALSE
  /\ micRequests = 0
  /\ mediaStream = FALSE
  /\ outputCtx = "null"
  /\ clock = 0
  /\ session = [s \in Sessions |-> "none"]
  /\ sessionRef = 0
  /\ discAwait = 0
  /\ hPc = [h \in Msgs |-> "idle"]
  /\ hCalls = [h \in Msgs |-> <<>>]
  /\ hDone = [h \in Msgs |-> 0]
  /\ hCall = [h \in Msgs |-> 0]
  /\ hAudio = [h \in Msgs |-> 0]
  /\ decodeQueue = <<>>
  /\ nextStartTime = 0
  /\ sources = {}
  /\ chunks = <<>>
  /\ callFc = [r \in Calls |-> NoFc]
  /\ responses = <<>>
  /\ sessionLog = NoEntry
  /\ discRaised = FALSE
  /\ capturing = FALSE
  /\ inputData = <<>>
  /\ volume = 0
  /\ mounted = TRUE

(* --------------------------------------------- messages on the bridge *)

ActionMsg(id, tool, args) == [type |-> "action", id |-> id, tool |-> tool, args |-> args]

\* The base64 JPEG a screenshot message carries; the hook stores it unread.
Jpeg == "jpeg"

ScreenshotMsg(data) == [type |-> "screenshot", data |-> data]

UrlChangeMsg(u) == [type |-> "url_change", url |-> u]

LogMsg(text) == [type |-> "log", message |-> text]

ToolResultMsg(id, result) == [type |-> "tool_result", id |-> id, result |-> result]

(* ------------------------------------- the bridge socket (hook's side) *)

\* ws.onopen, and the backend's 'connection' event of the same handshake.
\* clearTimeout(reconnectTimeoutRef.current) cancels the timer the ref names,
\* if it is still armed.
WsOpen ==
  /\ wsState = "CONNECTING"
  /\ wsState' = "OPEN"
  /\ isConnected' = TRUE
  /\ reconnectTimers' = IF reconnectTimers > 0 THEN reconnectTimers - 1 ELSE 0
  /\ srvConn' = "greeting"
  /\ UNCHANGED <<viewVars, pendingRequests, callVars, up, down, jobs, currentEvents, droppedFrames>>

\* A handler of the backend that outlives its connection sends on a closed
\* socket, which delivers nothing, and changes no other state of the backend
\* (bookMeeting has pushed its event before its first await): it is dropped
\* with the connection.
Orphaned(js) == <<>>

\* A plausible slip: the socket's error event arms a timer as well, so a
\* failed attempt leaves two of them.
WsCloseArmsTwice ==
  /\ wsState \in {"CONNECTING", "OPEN", "CLOSING"}
  /\ wsState' = "CLOSED"
  /\ isConnected' = FALSE
  /\ reconnectTimers' = reconnectTimers + (IF wsState = "CONNECTING" THEN 2 ELSE 1)
  /\ up' = <<>>
  /\ down' = <<>>
  /\ srvConn' = "none"
  /\ jobs' = Orphaned(jobs)
  /\ UNCHANGED <<viewVars, pendingRequests, callVars, currentEvents, droppedFrames>>

\* A plausible slip: only the loss of an open connection is retried.
WsCloseGivesUp ==
  /\ wsState \in {"CONNECTING", "OPEN", "CLOSING"}
  /\ wsState' = "CLOSED"
  /\ isConnected' = FALSE
  /\ reconnectTimers' = reconnectTimers + (IF wsState = "OPEN" THEN 1 ELSE 0)
  /\ up' = <<>>
  /\ down' = <<>>
  /\ srvConn' = "none"
  /\ jobs' = Orphaned(jobs)
  /\ UNCHANGED <<viewVars, pendingRequests, callVars, currentEvents, droppedFrames>>

\* A plausible slip: the close handler also empties the registry.
WsCloseForgets ==
  /\ wsState \in {"CONNECTING", "OPEN", "CLOSING"}
  /\ wsState' = "CLOSED"
  /\ isConnected' = FALSE
  /\ reconnectTimers' = reconnectTimers + 1
  /\ up' = <<>>
  /\ down' = <<>>
  /\ srvConn' = "none"
  /\ jobs' = Orphaned(jobs)
  /\ pendingRequests' = EmptyMap
  /\ UNCHANGED <<viewVars, callVars, currentEvents, droppedFrames>>

\* ws.onclose: the connection attempt failed, the open connection dropped,
\* or the close the cleanup asked for has completed. Messages in flight in
\* either direction are lost with the connection.
WsClose ==
  /\ wsState \in {"CONNECTING", "OPEN", "CLOSING"}
  /\ wsState' = "CLOSED"
  /\ isConnected' = FALSE
  /\ reconnectTimers' = reconnectTimers + 1
  /\ up' = <<>>
  /\ down' = <<>>
  /\ srvConn' = "none"
  /\ jobs' = Orphaned(jobs)
  /\ UNCHANGED <<viewVars, pendingRequests, callVars, currentEvents, droppedFrames>>

\* A plausible slip: the timer is an interval, armed until it is cleared.
ReconnectTimerRepeats ==
  /\ reconnectTimers > 0
  /\ reconnectTimers' = reconnectTimers
  /\ wsState' = "CONNECTING"
  /\ UNCHANGED <<isConnected, viewVars, pendingRequests, callVars, up, down, serverVars, droppedFrames>>

\* The reconnect timer expires: connectToBrowser() creates the next socket.
ReconnectTimerFires ==
  /\ reconnectTimers > 0
  /\ reconnectTimers' = reconnectTimers - 1
  /\ wsState' = "CONNECTING"
  /\ UNCHANGED <<isConnected, viewVars, pendingRequests, callVars, up, down, serverVars, droppedFrames>>

\* The effect's cleanup, on unmount: close() starts the closing handshake
\* of a socket that is connecting or open (its handlers stay attached), and
\* the timer the ref names is cleared.
Unmount ==
  /\ mounted
  /\ mounted' = FALSE
  /\ wsState' = IF wsState \in {"CONNECTING", "OPEN"} THEN "CLOSING" ELSE wsState
  /\ reconnectTimers' = 0
  /\ UNCHANGED <<isConnected, viewVars, pendingRequests, callVars, up, down, serverVars,
                 droppedFrames, sessionVars>>

(* ------------------------------------------------- promise resolution *)

\* resolve(v) of call r's promise: only the first invocation settles it.
Settled(r, v) == IF callState[r] = "awaiting" THEN [callResult EXCEPT ![r] = v] ELSE callResult

SettledState(r) == IF callState[r] = "awaiting" THEN [callState EXCEPT ![r] = "returned"] ELSE callState

SettledTool(r) == [callTool EXCEPT ![r] = "none"]

Invoked(r) == [resolveCount EXCEPT ![r] = @ + 1]

(* ------------------------------------------------------- ws.onmessage *)

\* The tool_result branch: data.type === 'tool_result' && data.id, then the
\* entry stored under data.id, if any, is resolved with data.result and deleted.
ToolResultAccepted(m) == Truthy(m.id) /\ MapHas(pendingRequests, m.id)

\* A plausible slip: the first entry of the registry, whatever its key.
PendingTargetAnyEntry(m) == pendingRequests[CHOOSE k \in DOMAIN pendingRequests : TRUE]

\* pendingRequestsRef.current.get(data.id)
PendingTarget(m) == pendingRequests[m.id]

OnToolResult(m) ==
  IF ToolResultAccepted(m)
  THEN /\ callResult' = Settled(PendingTarget(m), m.result)
       /\ callState' = SettledState(PendingTarget(m))
       /\ callTool' = SettledTool(PendingTarget(m))
       /\ resolveCount' = Invoked(PendingTarget(m))
       /\ pendingRequests' = MapDelete(pendingRequests, m.id)
  ELSE UNCHANGED <<callResult, callState, callTool, resolveCount, pendingRequests>>

\* A plausible slip: the screenshot branch leaves the loading flag alone.
LoadingAfterScreenshotKept == isLoading

\* isLoading as the screenshot branch's setBrowserState leaves it.
LoadingAfterScreenshot == FALSE

\* JSON.parse(event.data) throws on text that is not JSON, and data.type
\* throws on the payload null; the handler's catch logs either to the console.
HandlerThrows(f) == "raw" \in DOMAIN f /\ f.raw \in {"{oops", "null"}

\* data.type: undefined on a payload that is not an object or has no type.
TypeOf(f) == IF "type" \in DOMAIN f THEN f.type ELSE "undefined"

\* data.data of a screenshot message.
DataOf(f) == IF "data" \in DOMAIN f THEN f.data ELSE "undefined"

\* The branch of the if / else-if chain a frame takes: "caught" for one the
\* try block abandons, else its type.
FrameKind(f) == IF HandlerThrows(f) THEN "caught" ELSE TypeOf(f)

HandledKinds == {"screenshot", "url_change", "log", "tool_result"}

\* A plausible slip: the chain ends in a plain else that stores the snapshot.
IsScreenshotOrElse(k) == k \notin {"url_change", "log", "tool_result", "caught"}

\* data.type === 'screenshot'
IsScreenshot(k) == k = "screenshot"

WsMessage ==
  /\ wsState = "OPEN"
  /\ down # <<>>
  /\ down' = Tail(down)
  /\ LET m == Head(down)
         k == FrameKind(m) IN
       /\ screenshot' = IF IsScreenshot(k) THEN DataOf(m) ELSE screenshot
       /\ isLoading' = IF IsScreenshot(k) THEN LoadingAfterScreenshot ELSE isLoading
       /\ url' = IF k = "url_change" THEN m.url ELSE url
       /\ IF k = "tool_result"
          THEN OnToolResult(m)
          ELSE UNCHANGED <<callResult, callState, callTool, resolveCount, pendingRequests>>
       /\ droppedFrames' = IF k \in HandledKinds THEN droppedFrames ELSE droppedFrames + 1
  /\ UNCHANGED <<bridgeVars, page, callArgs, requestId, safetyTimer, up, serverVars>>

\* Frames that are not messages of the protocol: text that is not JSON, the
\* payloads null and 42, and an object of an unknown type.
MalformedFrames == {[raw |-> "{oops"], [raw |-> "null"], [raw |-> "42"], [type |-> "ping"]}

Malformed(f) == f \in MalformedFrames

JunkInFlight == Cardinality({i \in DOMAIN down : Malformed(down[i])})

\* The peer of the open socket sends a malformed frame.
PeerSendsMalformed(f) ==
  /\ wsState = "OPEN"
  /\ droppedFrames + JunkInFlight < MaxJunk
  /\ down' = Append(down, f)
  /\ UNCHANGED <<bridgeVars, viewVars, pendingRequests, callVars, up, serverVars, droppedFrames>>

(* -------------------------------------------------------- executeTool *)

\* Calls are numbered in the order they are made.
NextCall(r) == callState[r] = "idle" /\ \A q \in Calls : q < r => callState[q] # "idle"

BridgeOpen == wsState = "OPEN"

\* executeTool up to its first suspension, bridge path: a request id is drawn,
\* resolve is stored under it, the action is sent, the safety timeout is armed.
ExecBridge(r, name, args, id) ==
  /\ NextCall(r)
  /\ BridgeOpen
  /\ isLoading' = TRUE
  /\ pendingRequests' = MapSet(pendingRequests, id, r)
  /\ up' = Append(up, ActionMsg(id, name, args))
  /\ requestId' = [requestId EXCEPT ![r] = id]
  /\ safetyTimer' = [safetyTimer EXCEPT ![r] = TRUE]
  /\ callState' = [callState EXCEPT ![r] = "awaiting"]
  /\ callTool' = [callTool EXCEPT ![r] = name]
  /\ UNCHANGED <<bridgeVars, url, page, screenshot, callArgs, callResult,
                 resolveCount, down, serverVars, droppedFrames>>

\* executeTool up to its first suspension, simulation path: the 800 ms delay.
ExecSimulated(r, name, args) ==
  /\ NextCall(r)
  /\ ~BridgeOpen
  /\ isLoading' = TRUE
  /\ callState' = [callState EXCEPT ![r] = "simwait"]
  /\ callTool' = [callTool EXCEPT ![r] = name]
  /\ callArgs' = [callArgs EXCEPT ![r] = args]
  /\ UNCHANGED <<bridgeVars, url, page, screenshot, pendingRequests, requestId, callResult,
                 resolveCount, safetyTimer, up, down, serverVars, droppedFrames>>

\* Timers expire in the order they were armed when the later one has no
\* shorter delay: 800 ms (simulation) before 5000 ms (safety) and each kind
\* among itself.
NoEarlierSafetyTimer(r) == \A q \in Calls : q < r => ~safetyTimer[q]

NoEarlierSimulation(r) == \A q \in Calls : q < r => callState[q] # "simwait"

\* The safety timeout's callback.
TimeoutFires(r) ==
  /\ safetyTimer[r]
  /\ NoEarlierSafetyTimer(r)
  /\ NoEarlierSimulation(r)
  /\ safetyTimer' = [safetyTimer EXCEPT ![r] = FALSE]
  /\ IF MapHas(pendingRequests, requestId[r])
     THEN /\ pendingRequests' = MapDelete(pendingRequests, requestId[r])
          /\ callResult' = Settled(r, TimedOutResult)
          /\ callState' = SettledState(r)
          /\ callTool' = SettledTool(r)
          /\ resolveCount' = Invoked(r)
          /\ isLoading' = FALSE
     ELSE UNCHANGED <<pendingRequests, callResult, callState, callTool, resolveCount, isLoading>>
  /\ UNCHANGED <<bridgeVars, url, page, screenshot, callArgs, requestId,
                 up, down, serverVars, droppedFrames>>

\* The simulation's switch: what it returns ...
SimResult(name, args) ==
  CASE name = "openCalendar" -> [events |-> <<"Team Sync (Simulated)">>]
    [] name = "openEmail" -> [emails |-> <<"Simulated Email">>]
    [] name = "checkAvailability" -> [events |-> <<"Team Sync">>]
    [] name = "bookMeeting" -> [status |-> "success", booked |-> args.title]
    [] name = "sendEmail" -> [status |-> "success", sentTo |-> args.to]
    [] OTHER -> ToolNotFoundResult

\* ... the view it navigates to (bookMeeting and the default case set none) ...
SimNavigates(name) == name \in {"openCalendar", "openEmail", "checkAvailability", "sendEmail"}

SimPage(name) == IF name \in {"openCalendar", "checkAvailability"} THEN "calendar" ELSE "email"

SimUrl(name) ==
  CASE name \in {"openCalendar", "checkAvailability"} -> CalendarUrl
    [] name = "openEmail" -> InboxUrl
    [] OTHER -> SentUrl

\* ... whether its setBrowserState clears the loading flag ...
SimClearsLoading(name) == name # "bookMeeting"

\* ... and whether it throws reading a property of an absent args object.
SimThrows(name, args) == name \in {"bookMeeting", "sendEmail"} /\ args = NoArgs

\* executeTool after the simulated delay. In the sendEmail case the state is
\* updated before args.to is read.
SimFinish(r) ==
  /\ callState[r] = "simwait"
  /\ NoEarlierSimulation(r)
  /\ LET name == callTool[r]
         args == callArgs[r]
     IN /\ page' = IF SimNavigates(name) THEN SimPage(name) ELSE page
        /\ url' = IF SimNavigates(name) THEN SimUrl(name) ELSE url
        /\ isLoading' = IF SimClearsLoading(name) THEN FALSE ELSE isLoading
        /\ IF SimThrows(name, args)
           THEN /\ callState' = [callState EXCEPT ![r] = "rejected"]
                /\ UNCHANGED callResult
           ELSE /\ callState' = [callState EXCEPT ![r] = "returned"]
                /\ callResult' = [callResult EXCEPT ![r] = SimResult(name, args)]
  /\ callTool' = [callTool EXCEPT ![r] = "none"]
  /\ callArgs' = [callArgs EXCEPT ![r] = NoArgs]
  /\ UNCHANGED <<bridgeVars, screenshot, pendingRequests, requestId, resolveCount,
                 safetyTimer, up, down, serverVars, droppedFrames>>

(* ------------------------------------------- the automation backend *)

RemoveAt(js, j) == [i \in 1..(Len(js) - 1) |-> IF i < j THEN js[i] ELSE js[i + 1]]

\* if (requestId) ws.send({type: 'tool_result', id: requestId, result: toolResult})
Reply(id, result) == IF Truthy(id) THEN <<ToolResultMsg(id, result)>> ELSE <<>>

\* toolResult of each branch of the handler; it starts as {status: 'success'}
\* and a tool no branch names leaves it so.
DefaultToolResult == [status |-> "success"]

ServerResult(tool, args, events) ==
  CASE tool \in {"openCalendar", "checkAvailability"} -> [events |-> events]
    [] tool = "openEmail" -> [emails |-> InitialEmails]
    [] tool = "bookMeeting" -> [status |-> "success", bookedEvent |-> args.title]
    [] tool = "sendEmail" -> [status |-> "success", sentTo |-> args.to]
    [] OTHER -> DefaultToolResult

\* The branches that await page.setContent before they reply.
RendersPage(tool) == tool \in {"openCalendar", "checkAvailability", "openEmail", "bookMeeting"}

\* data.args.title, data.args.to: a TypeError when the message has no args,
\* caught by the handler's try/catch, which sends nothing.
ServerThrows(tool, args) == tool \in {"bookMeeting", "sendEmail"} /\ args = NoArgs

\* What a branch sends before the tool_result.
Notice(tool, args) ==
  CASE tool \in {"openCalendar", "checkAvailability"} -> <<UrlChangeMsg(CalendarUrl)>>
    [] tool = "openEmail" -> <<UrlChangeMsg(InboxUrl)>>
    [] tool = "bookMeeting" -> <<LogMsg("Booked meeting")>>
    [] tool = "sendEmail" -> <<LogMsg("Email sent")>>
    [] OTHER -> <<>>

\* A handler suspended at await page.setContent(...), which still reads data ...
RenderingJob(m) == [pc |-> "content", id |-> m.id, tool |-> m.tool, args |-> m.args]

\* ... and one suspended in the 100 ms wait before its screenshot, which does not.
SettlingJob(id) == [pc |-> "settle", id |-> id]

\* wss.on('connection'): the initial screenshot is awaited before
\* ws.on('message') is registered.
SrvGreet ==
  /\ srvConn = "greeting"
  /\ srvConn' = "ready"
  /\ down' = Append(down, ScreenshotMsg(Jpeg))
  /\ UNCHANGED <<bridgeVars, viewVars, pendingRequests, callVars, up, jobs, currentEvents, droppedFrames>>

\* A message that arrives before the handler is registered has no listener.
SrvUnheard ==
  /\ srvConn = "greeting"
  /\ up # <<>>
  /\ up' = Tail(up)
  /\ UNCHANGED <<bridgeVars, viewVars, pendingRequests, callVars, down, serverVars, droppedFrames>>

\* ws.on('message') up to its first await (or to its end, when it throws).
SrvReceive ==
  /\ srvConn = "ready"
  /\ up # <<>>
  /\ up' = Tail(up)
  /\ LET m == Head(up) IN
       IF ServerThrows(m.tool, m.args)
       THEN UNCHANGED <<down, jobs, currentEvents>>
       ELSE /\ currentEvents' = IF m.tool = "bookMeeting"
                                THEN Append(currentEvents, m.args.title)
                                ELSE currentEvents
            /\ IF RendersPage(m.tool)
               THEN /\ jobs' = Append(jobs, RenderingJob(m))
                    /\ down' = down
               ELSE /\ jobs' = Append(jobs, SettlingJob(m.id))
                    /\ down' = down \o Notice(m.tool, m.args)
                                    \o Reply(m.id, ServerResult(m.tool, m.args, currentEvents))
  /\ UNCHANGED <<bridgeVars, viewVars, pendingRequests, callVars, srvConn, droppedFrames>>

\* page.setContent has resolved: the branch's messages and the tool_result
\* are sent, then the handler waits 100 ms.
SrvContentDone(j) ==
  /\ j \in DOMAIN jobs
  /\ jobs[j].pc = "content"
  /\ jobs' = [jobs EXCEPT ![j] = SettlingJob(jobs[j].id)]
  /\ down' = down \o Notice(jobs[j].tool, jobs[j].args)
                  \o Reply(jobs[j].id, ServerResult(jobs[j].tool, jobs[j].args, currentEvents))
  /\ UNCHANGED <<bridgeVars, viewVars, pendingRequests, callVars, up, srvConn, currentEvents, droppedFrames>>

\* sendScreenshot at the end of the handler.
SrvScreenshot(j) ==
  /\ j \in DOMAIN jobs
  /\ jobs[j].pc = "settle"
  /\ jobs' = RemoveAt(jobs, j)
  /\ down' = Append(down, ScreenshotMsg(Jpeg))
  /\ UNCHANGED <<bridgeVars, viewVars, pendingRequests, callVars, up, srvConn, currentEvents, droppedFrames>>

(* ------------------------------------- the Live session: connect *)

\* Sessions are numbered in the order ai.live.connect makes them.
NewSession(s) == session[s] = "none" /\ \A q \in Sessions : q < s => session[q] # "none"

SessionsMade == Cardinality({s \in Sessions : session[s] # "none"})

\* connect() with an API key, up to its suspension at getUserMedia. At most
\* cap sessions are made in one run.
ConnectStart(cap) ==
  /\ micRequests + SessionsMade < cap
  /\ micRequests' = micRequests + 1
  /\ UNCHANGED <<connected, mediaStream, session, sessionRef, discAwait,
                 handlerVars, playVars, dispatchVars>>
  /\ sessionLog' = LogEntry("info", "Requesting microphone...")
  /\ UNCHANGED <<discRaised, captureVars, mounted>>

\* getUserMedia resolves: the stream is stored, both audio contexts are made
\* (the output clock of a new context starts at 0), and ai.live.connect's
\* promise is stored without being awaited.
ConnectMicGranted(s) ==
  /\ micRequests > 0
  /\ NewSession(s)
  /\ micRequests' = micRequests - 1
  /\ mediaStream' = TRUE
  /\ outputCtx' = "running"
  /\ clock' = 0
  /\ session' = [session EXCEPT ![s] = "connecting"]
  /\ sessionRef' = s
  /\ UNCHANGED <<connected, discAwait, handlerVars, decodeQueue, nextStartTime,
                 sources, chunks, dispatchVars>>
  /\ sessionLog' = LogEntry("info", "Connecting to Gemini Live...")
  /\ UNCHANGED <<discRaised, captureVars, mounted>>

\* The errors getUserMedia rejects with: permission denied, and another one.
MicErrors == {"NotAllowedError", "NotFoundError"}

\* The entry connect()'s catch block logs for an error of the given name.
CatchEntry(err) ==
  IF err = "NotAllowedError"
  THEN LogEntry("error", "Microphone access denied. Please check permissions.")
  ELSE LogEntry("error", "Failed to connect: " \o err)

\* getUserMedia rejects: connect()'s catch block.
ConnectMicDenied(err) ==
  /\ micRequests > 0
  /\ micRequests' = micRequests - 1
  /\ connected' = FALSE
  /\ sessionLog' = CatchEntry(err)
  /\ UNCHANGED <<mediaStream, session, sessionRef, discAwait,
                 handlerVars, playVars, dispatchVars>>
  /\ UNCHANGED <<discRaised, captureVars, mounted>>

\* The session's onopen callback; the promise of ai.live.connect resolves.
SessionOpens(s) ==
  /\ session[s] = "connecting"
  /\ session' = [session EXCEPT ![s] = "open"]
  /\ connected' = TRUE
  /\ UNCHANGED <<micRequests, mediaStream, sessionRef, discAwait,
                 handlerVars, playVars, dispatchVars>>
  /\ sessionLog' = LogEntry("success", "Connected!")
  /\ capturing' = IF mediaStream /\ outputCtx = "running" THEN TRUE ELSE capturing
  /\ UNCHANGED <<discRaised, inputData, volume, mounted>>

\* The session's onclose callback: the service or the network ended it, or
\* the close that follows an error of its socket.
SessionCloses(s) ==
  /\ session[s] \in {"open", "errored"}
  /\ session' = [session EXCEPT ![s] = "closed"]
  /\ connected' = FALSE
  /\ UNCHANGED <<micRequests, mediaStream, sessionRef, discAwait,
                 handlerVars, playVars, dispatchVars>>
  /\ sessionLog' = LogEntry("info", "Disconnected")
  /\ UNCHANGED <<discRaised, captureVars, mounted>>

(* ---------------------------------- the Live session: disconnect *)

\* disconnect() after its await: both contexts are closed (the refs keep
\* them), every active source is stopped, the active set is cleared.
ContextAfterClose == IF outputCtx = "null" THEN "null" ELSE "closed"

\* disconnect() up to its await of sessionPromiseRef.current; with no
\* session promise it runs to its end. One disconnect() runs at a time.
DisconnectStart ==
  /\ discAwait = 0
  /\ mediaStream' = FALSE
  /\ IF sessionRef = 0
     THEN /\ outputCtx' = ContextAfterClose
          /\ sources' = {}
          /\ connected' = FALSE
          /\ discAwait' = 0
          /\ sessionLog' = LogEntry("info", "Stopped")
          /\ capturing' = FALSE
     ELSE /\ discAwait' = sessionRef
          /\ UNCHANGED <<outputCtx, sources, connected, sessionLog, capturing>>
  /\ UNCHANGED <<micRequests, session, sessionRef, handlerVars, clock, decodeQueue,
                 nextStartTime, chunks, dispatchVars>>
  /\ UNCHANGED <<discRaised, inputData, volume, mounted>>

\* The awaited promise has resolved (the session has opened): the rest of
\* disconnect(). Nothing in it closes the session or clears a ref.
DisconnectFinish ==
  /\ discAwait # 0
  /\ session[discAwait] \in {"open", "closed"}
  /\ outputCtx' = ContextAfterClose
  /\ sources' = {}
  /\ connected' = FALSE
  /\ discAwait' = 0
  /\ UNCHANGED <<micRequests, mediaStream, session, sessionRef, handlerVars, clock,
                 decodeQueue, nextStartTime, chunks, dispatchVars>>
  /\ sessionLog' = LogEntry("info", "Stopped")
  /\ capturing' = FALSE
  /\ UNCHANGED <<discRaised, inputData, volume, mounted>>

(* ------------------------------- the Live session: failures *)

MissingKeyEntry == LogEntry("error", "Missing API Key")

\* A plausible slip: the early return also resets the status, as the catch
\* block does.
ConnectNoKeyResets ==
  /\ sessionLog' = MissingKeyEntry
  /\ connected' = FALSE
  /\ UNCHANGED <<micRequests, mediaStream, session, sessionRef, discAwait,
                 handlerVars, playVars, dispatchVars, discRaised, captureVars, mounted>>

\* connect() with an empty apiKey: the entry is logged and connect returns.
ConnectNoKey ==
  /\ sessionLog' = MissingKeyEntry
  /\ UNCHANGED <<lifeVars, handlerVars, playVars, dispatchVars, discRaised,
                 captureVars, mounted>>

\* The session's onerror callback: the entry is logged, nothing else. The
\* socket is dead from here on: a session that had not opened never opens
\* (its promise stays pending), and its close event may follow.
SessionError(s) ==
  /\ session[s] \in {"connecting", "open"}
  /\ session' = [session EXCEPT ![s] = "errored"]
  /\ sessionLog' = LogEntry("error", "Connection Error")
  /\ UNCHANGED <<connected, micRequests, mediaStream, sessionRef, discAwait,
                 handlerVars, playVars, dispatchVars, discRaised, captureVars, mounted>>

\* The promise of ai.live.connect rejects. connect() has returned without
\* awaiting it and attached no handler to it: no callback of the hook runs.
SessionRejected(s) ==
  /\ session[s] = "connecting"
  /\ session' = [session EXCEPT ![s] = "rejected"]
  /\ UNCHANGED <<connected, micRequests, mediaStream, sessionRef, discAwait,
                 handlerVars, playVars, dispatchVars, logVars, captureVars, mounted>>

\* The promise disconnect() awaits has rejected: the await throws and the
\* rest of disconnect() does not run.
DisconnectThrows ==
  /\ discAwait # 0
  /\ session[discAwait] = "rejected"
  /\ discAwait' = 0
  /\ discRaised' = TRUE
  /\ UNCHANGED <<connected, micRequests, mediaStream, session, sessionRef,
                 handlerVars, playVars, dispatchVars, sessionLog, captureVars, mounted>>

(* ------------------------------- the Live session: onmessage *)

\* A function call of a tool-call event, and the messages built from them:
\* up to two function calls and an audio chunk, either possibly absent.
FunctionCalls(tools, bags) == [name : tools, args : bags]

CallLists(fcs) == {<<>>} \cup {<<a>> : a \in fcs} \cup {<<a, b>> : a \in fcs, b \in fcs}

SessionMessages(fcs, durs) == [calls : CallLists(fcs), audio : {0} \cup durs]

\* Messages are numbered in the order the sessions deliver them.
NextMsg(h) == hPc[h] = "idle" /\ \A q \in Msgs : q < h => hPc[q] # "idle"

\* Function calls delivered and not yet dispatched.
Undispatched(h) == IF hPc[h] = "call" THEN Len(hCalls[h]) - 1 ELSE 0

RECURSIVE SumUndispatched(_)
SumUndispatched(hs) ==
  IF hs = {} THEN 0
  ELSE LET h == CHOOSE x \in hs : TRUE IN Undispatched(h) + SumUndispatched(hs \ {h})

CallsPlanned == Cardinality({r \in Calls : callState[r] # "idle"}) + SumUndispatched(Msgs)

\* A plausible slip: the cursor is set to the clock, not to the later of the two.
ClampToClock(cursor, now) == now

\* Math.max(nextStartTimeRef.current, ctx.currentTime)
Clamp(cursor, now) == IF cursor > now THEN cursor ELSE now

\* const result = await executeTool(fc.name, fc.args), up to the suspension
\* of executeTool: k is the position of fc in the event. With the bridge not
\* open executeTool takes its simulation path.
Dispatch(h, fc, k) ==
  \E r \in Calls :
    /\ ExecSimulated(r, fc.name, fc.args)
    /\ hCall' = [hCall EXCEPT ![h] = r]
    /\ callFc' = [callFc EXCEPT ![r] = [id |-> <<h, k>>, name |-> fc.name]]
    /\ hPc' = [hPc EXCEPT ![h] = "call"]

\* The audio part of onmessage up to its suspension at decodeAudioData: the
\* cursor is clamped to the clock before the chunk is decoded.
AudioPart(h, dur) ==
  IF dur > 0 /\ outputCtx # "null"
  THEN /\ nextStartTime' = Clamp(nextStartTime, clock)
       /\ decodeQueue' = Append(decodeQueue, h)
       /\ hPc' = [hPc EXCEPT ![h] = "decode"]
  ELSE /\ hPc' = [hPc EXCEPT ![h] = "done"]
       /\ UNCHANGED <<nextStartTime, decodeQueue>>

\* A session delivers a message: onmessage runs up to its first suspension.
SessionMessage(s, h, msg) ==
  /\ session[s] = "open"
  /\ NextMsg(h)
  /\ CallsPlanned + Len(msg.calls) <= MaxCalls
  /\ hAudio' = [hAudio EXCEPT ![h] = msg.audio]
  /\ hCalls' = [hCalls EXCEPT ![h] = msg.calls]
  /\ IF msg.calls # <<>>
     THEN /\ Dispatch(h, Head(msg.calls), 1)
          /\ UNCHANGED <<nextStartTime, decodeQueue>>
     ELSE /\ AudioPart(h, msg.audio)
          /\ UNCHANGED <<hCall, callFc, dispatchVars>>
  /\ UNCHANGED <<lifeVars, hDone, responses, outputCtx, clock, sources, chunks>>
  /\ UNCHANGED <<logVars, captureVars, mounted>>

\* sessionPromiseRef.current?.then(session => session.sendToolResponse(...)):
\* the response goes to whatever session the ref names when the call returns.
Response(h) ==
  [to |-> sessionRef, id |-> callFc[hCall[h]].id, name |-> callFc[hCall[h]].name,
   result |-> callResult[hCall[h]]]

\* The awaited executeTool has settled. If it threw, the handler ends with
\* it. Else the response is registered and the loop goes on to the next
\* function call, or, after the last one, to the audio part.
HandlerResumes(h) ==
  /\ hPc[h] = "call"
  /\ callState[hCall[h]] \in {"returned", "rejected"}
  /\ IF callState[hCall[h]] = "rejected"
     THEN /\ hPc' = [hPc EXCEPT ![h] = "dead"]
          /\ UNCHANGED <<hCalls, hDone, hCall, callFc, responses, nextStartTime,
                         decodeQueue, dispatchVars>>
     ELSE /\ responses' = IF sessionRef = 0 THEN responses ELSE Append(responses, Response(h))
          /\ hDone' = [hDone EXCEPT ![h] = @ + 1]
          /\ hCalls' = [hCalls EXCEPT ![h] = Tail(@)]
          /\ IF Tail(hCalls[h]) # <<>>
             THEN /\ Dispatch(h, Head(Tail(hCalls[h])), hDone[h] + 2)
                  /\ UNCHANGED <<nextStartTime, decodeQueue>>
             ELSE /\ AudioPart(h, hAudio[h])
                  /\ UNCHANGED <<hCall, callFc, dispatchVars>>
  /\ UNCHANGED <<lifeVars, hAudio, outputCtx, clock, sources, chunks>>
  /\ UNCHANGED <<logVars, captureVars, mounted>>

Without(q, h) == SelectSeq(q, LAMBDA x : x # h)

\* decodeAudioData has resolved: the source is made, started at the cursor
\* as it is now, the cursor is advanced by the chunk's duration, and the
\* source joins the active set. With anyOrder the decodes finish in any
\* order, else in the order they were started.
HandlerDecoded(h, anyOrder) ==
  /\ hPc[h] = "decode"
  /\ anyOrder \/ h = Head(decodeQueue)
  /\ chunks' = Append(chunks, [msg |-> h, start |-> nextStartTime, dur |-> hAudio[h],
                               now |-> clock])
  /\ nextStartTime' = nextStartTime + hAudio[h]
  /\ sources' = sources \cup {h}
  /\ decodeQueue' = Without(decodeQueue, h)
  /\ hPc' = [hPc EXCEPT ![h] = "done"]
  /\ UNCHANGED <<lifeVars, hCalls, hDone, hCall, hAudio, callFc, responses,
                 outputCtx, clock, dispatchVars>>
  /\ UNCHANGED <<logVars, captureVars, mounted>>

(* ------------------------------------------------ the output clock *)

\* The output context's clock advances while the context runs.
Tick ==
  /\ outputCtx = "running"
  /\ clock < MaxClock
  /\ clock' = clock + 1
  /\ UNCHANGED <<lifeVars, handlerVars, outputCtx, decodeQueue, nextStartTime,
                 sources, chunks, dispatchVars>>
  /\ UNCHANGED <<logVars, captureVars, mounted>>

EndOf(h) == LET c == CHOOSE c \in {chunks[i] : i \in DOMAIN chunks} : c.msg = h
            IN c.start + c.dur

\* A source has played to its end: its 'ended' listener removes it.
SourceEnds(h) ==
  /\ h \in sources
  /\ EndOf(h) <= clock
  /\ sources' = sources \ {h}
  /\ UNCHANGED <<lifeVars, handlerVars, outputCtx, clock, decodeQueue, nextStartTime,
                 chunks, dispatchVars>>
  /\ UNCHANGED <<logVars, captureVars, mounted>>

(* ----------------------------------------------------- specification *)

\* One step of the system, the arguments of executeTool and the request ids
\* drawn from the given sets.
Step(tools, bags, ids) ==
  /\ \/ WsOpen
     \/ WsClose
     \/ ReconnectTimerFires
     \/ WsMessage
     \/ \E r \in Calls, name \in tools, args \in bags, id \in ids : ExecBridge(r, name, args, id)
     \/ \E r \in Calls, name \in tools, args \in bags : ExecSimulated(r, name, args)
     \/ \E r \in Calls : TimeoutFires(r)
     \/ \E r \in Calls : SimFinish(r)
     \/ SrvGreet
     \/ SrvUnheard
     \/ SrvReceive
     \/ \E j \in DOMAIN jobs : SrvContentDone(j)
     \/ \E j \in DOMAIN jobs : SrvScreenshot(j)
  /\ UNCHANGED hookVars

Next == Step(ToolNames, ArgBags, RequestIds)

Spec == Init /\ [][Next]_vars

\* The same system with the tools narrowed to one whose backend branch awaits
\* the page (openCalendar) and one that replies at once (sendEmail), called
\* with an args object.
CorrelationNext == Step({"openCalendar", "sendEmail"}, {SomeArgs}, RequestIds)

SpecCorrelation == Init /\ [][CorrelationNext]_vars

\* The bridge under the scheduling the browser gives it: an armed reconnect
\* timer expires, and a connection attempt that is not refused opens. One
\* tool and one request id keep the dispatcher's part small.
ReconnectNext == Step({"sendEmail"}, {SomeArgs}, {"a"})

SpecReconnect ==
  /\ Init
  /\ [][ReconnectNext]_vars
  /\ WF_vars(ReconnectTimerFires /\ UNCHANGED hookVars)
  /\ WF_vars(WsOpen /\ UNCHANGED hookVars)

\* The bridge with a peer that also sends frames outside the protocol.
MalformedNext ==
  \/ ReconnectNext
  \/ (\E f \in MalformedFrames : PeerSendsMalformed(f)) /\ UNCHANGED hookVars

SpecMalformed == Init /\ [][MalformedNext]_vars

\* The bridge with the component unmounting at any moment.
UnmountNext == ReconnectNext \/ Unmount

SpecUnmount == Init /\ [][UnmountNext]_vars

\* The steps of the Live session layer, in groups. The bridge is not open in
\* these specifications, so every executeTool is simulated.
ConnectStep(cap) ==
  \/ ConnectStart(cap)
  \/ \E s \in Sessions : ConnectMicGranted(s)
  \/ \E err \in MicErrors : ConnectMicDenied(err)
  \/ \E s \in Sessions : SessionOpens(s)

StopStep ==
  \/ \E s \in Sessions : SessionCloses(s)
  \/ DisconnectStart
  \/ DisconnectFinish

HandlerStep(msgs, anyOrder) ==
  \/ \E s \in Sessions, h \in Msgs, msg \in msgs : SessionMessage(s, h, msg)
  \/ \E h \in Msgs : HandlerResumes(h)
  \/ \E h \in Msgs : HandlerDecoded(h, anyOrder)
  \/ (\E r \in Calls : SimFinish(r)) /\ UNCHANGED hookVars

ClockStep ==
  \/ Tick
  \/ \E h \in Msgs : SourceEnds(h)

\* Playback within one session: messages with audio, some with a tool call,
\* decodes finishing in any order, the clock running.
PlaybackMessages == SessionMessages(FunctionCalls({"openCalendar"}, {SomeArgs}), Durations)

PlaybackNext == ConnectStep(1) \/ HandlerStep(PlaybackMessages, TRUE) \/ ClockStep

SpecPlayback == Init /\ [][PlaybackNext]_vars

\* The same with every decode finishing in the order the decodes started.
OrderedNext == ConnectStep(1) \/ HandlerStep(PlaybackMessages, FALSE) \/ ClockStep

SpecOrdered == Init /\ [][OrderedNext]_vars

\* The session's life: connect() and disconnect() in any sequence, tool
\* calls with and without an args object, audio chunks of one duration.
LifeMessages == SessionMessages(FunctionCalls({"bookMeeting"}, ArgBags), {1})

SessionNext == ConnectStep(MaxSessions) \/ StopStep \/ HandlerStep(LifeMessages, FALSE)

SpecSession == Init /\ [][SessionNext]_vars

\* The session's life with its failures: connect() without a key, the
\* error callback, the rejection of the session promise.
FailStep ==
  \/ ConnectNoKey
  \/ \E s \in Sessions : SessionError(s)
  \/ \E s \in Sessions : SessionRejected(s)
  \/ DisconnectThrows

FailureNext == ConnectStep(MaxSessions) \/ StopStep \/ FailStep

SpecFailure == Init /\ [][FailureNext]_vars

\* Sessions one after the other, with the clock running: connect() is
\* called first, and again only when a disconnect() has completed, nothing
\* has been logged since, no connect() is under way, the earlier session
\* has closed and none of its messages is still being handled.
ConnectAfterStop ==
  /\ sessionLog \in {NoEntry, LogEntry("info", "Stopped")}
  /\ micRequests = 0
  /\ \A s \in Sessions : session[s] \in {"none", "closed"}
  /\ \A h \in Msgs : hPc[h] \in {"idle", "done", "dead"}
  /\ ConnectStart(MaxSessions)

RestartMessages == SessionMessages(FunctionCalls({"openCalendar"}, {SomeArgs}), {1})

RestartNext ==
  \/ ConnectAfterStop
  \/ \E s \in Sessions : ConnectMicGranted(s)
  \/ \E err \in MicErrors : ConnectMicDenied(err)
  \/ \E s \in Sessions : SessionOpens(s)
  \/ StopStep
  \/ HandlerStep(RestartMessages, FALSE)
  \/ ClockStep

SpecRestart == Init /\ [][RestartNext]_vars

(* ------------------------------------------------ the capture path *)

\* The factor the hook applies to the rms before it publishes it.
Gain == 5

Samples == (0 - MaxSample)..MaxSample

\* e.inputBuffer.getChannelData(0)
Frames == [1..FrameLen -> Samples]

RECURSIVE SumSq(_)
\* The loop over inputData: sum += inputData[i] * inputData[i]
SumSq(f) == IF f = <<>> THEN 0 ELSE Head(f) * Head(f) + SumSq(Tail(f))

\* Math.sqrt, rounded down to the model's resolution.
Sqrt(n) == CHOOSE r \in 0..(Gain * MaxSample) : r * r <= n /\ n < (r + 1) * (r + 1)

\* rms * 5, computed as sqrt(25 * sum / length).
GainedRms(f) == Sqrt((Gain * Gain * SumSq(f)) \div Len(f))

Min(a, b) == IF a <= b THEN a ELSE b

\* A plausible slip: the gained rms is published as it is.
LoudnessUnclamped(f) == GainedRms(f)

\* Math.min(1, rms * 5)
Loudness(f) == Min(Unit, GainedRms(f))

\* scriptProcessor.onaudioprocess: the frame's loudness is published, and
\* the frame is sent to the session (which changes no state of the hook).
AudioProcess(f) ==
  /\ capturing
  /\ inputData' = f
  /\ volume' = Loudness(f)
  /\ UNCHANGED <<dispatchVars, lifeVars, handlerVars, playVars, logVars, capturing, mounted>>

\* The session's life with the microphone's frames arriving while the
\* capture is attached.
CaptureNext == ConnectStep(1) \/ StopStep \/ (\E f \in Frames : AudioProcess(f))

SpecCapture == Init /\ [][CaptureNext]_vars

(* ------------------------------------------------------------ claims *)

InFlight(r) == callState[r] \in {"awaiting", "simwait"}

\* The step in which ws.onmessage handles the oldest message in flight.
Delivery == wsState = "OPEN" /\ wsState' = "OPEN" /\ down # <<>> /\ down' = Tail(down)

ReplyDelivery == Delivery /\ Head(down).type = "tool_result"

StatusOf(v) == IF "status" \in DOMAIN v THEN v.status ELSE "absent"

Registered(r) == MapHas(pendingRequests, requestId[r]) /\ pendingRequests[requestId[r]] = r

\* C1: the resolve function stored for a request is invoked at most once,
\* whatever tool_result messages arrive and whenever the safety timeout
\* expires, and once it has been invoked the registry no longer holds it.
C1_ResolvedAtMostOnce ==
  \A r \in Calls :
    /\ resolveCount[r] <= 1
    /\ resolveCount[r] >= 1 => ~Registered(r)

\* C2 (as a safety property): a call that is awaiting its result can still be
\* resolved - its resolve function is in the registry or its safety timeout is
\* armed - so that it does not await forever.
C2_NoCallStranded ==
  \A r \in Calls : callState[r] = "awaiting" => (safetyTimer[r] \/ Registered(r))

\* C3: a tool_result resolves the request registered under its own id with the
\* result it carries, and it neither resolves a request with another id nor
\* removes that request's registry entry; a request that a reply resolves has
\* the reply's id and receives the reply's result.
C3_RepliesAreIndependent ==
  [][ReplyDelivery =>
       LET m == Head(down) IN
         \A r \in Calls :
           /\ (Truthy(m.id) /\ requestId[r] = m.id /\ Registered(r))
                => (callState'[r] = "returned" /\ callResult'[r] = m.result)
           /\ requestId[r] # m.id
                => /\ callState'[r] = callState[r]
                   /\ callResult'[r] = callResult[r]
                   /\ resolveCount'[r] = resolveCount[r]
                   /\ Registered(r) => Registered(r)'
           /\ (callState[r] = "awaiting" /\ callState'[r] = "returned")
                => (requestId[r] = m.id /\ callResult'[r] = m.result)]_vars

\* Witness of C3: two requests with distinct ids were in flight together and
\* the reply to the later one arrived first: the later call has returned with
\* the backend's result while the earlier one is still registered.
C3_Witness ==
  /\ callState[1] = "awaiting" /\ Registered(1) /\ Truthy(requestId[1])
  /\ callState[2] = "returned" /\ resolveCount[2] = 1
  /\ requestId[2] # requestId[1]
  /\ callResult[2] = ServerResult("sendEmail", SomeArgs, currentEvents)

\* C4: when the safety timeout of a call that is still awaiting expires, the
\* call returns the timeout error, its id is no longer in the registry and
\* the loading flag is false.
C4_TimeoutResolves ==
  [][\A r \in Calls :
       (safetyTimer[r] /\ ~safetyTimer'[r] /\ callState[r] = "awaiting")
         => /\ callState'[r] = "returned"
            /\ callResult'[r] = TimedOutResult
            /\ ~MapHas(pendingRequests', requestId[r])
            /\ isLoading' = FALSE]_vars

\* C5: a tool_result whose id is that of a request that has already returned
\* the timeout error is dropped: no resolve function is invoked, the registry
\* is unchanged and no call's received value changes.
C5_LateReplyDropped ==
  [][(ReplyDelivery /\ \E r \in Calls : /\ requestId[r] = Head(down).id
                                         /\ callState[r] = "returned"
                                         /\ callResult[r] = TimedOutResult)
       => UNCHANGED <<resolveCount, pendingRequests, callResult, callState>>]_vars

\* C6: a call whose tool name is outside the catalog returns a result of
\* status "error", on the simulation path and on the bridge path.
C6_UnknownToolIsError ==
  [][\A r \in Calls :
       (InFlight(r) /\ callTool[r] \notin CatalogTools /\ callState'[r] = "returned")
         => StatusOf(callResult'[r]) = "error"]_vars

\* C7: when the handling of a tool_result resolves a call and leaves no call
\* in flight, the loading flag is false afterwards, with no screenshot needed.
C7_ReplyClearsLoading ==
  [][(/\ ReplyDelivery
      /\ \E r \in Calls : callState[r] = "awaiting" /\ callState'[r] = "returned"
      /\ \A q \in Calls : ~InFlight(q)')
       => isLoading' = FALSE]_vars

ScreenshotDelivery == Delivery /\ Head(down).type = "screenshot"

\* C7 as amended: a tool_result that matches a pending request resolves it and
\* leaves the loading flag as it was; it is the handling of a screenshot
\* message that clears the flag.
C7_ScreenshotClearsLoading ==
  [][/\ ReplyDelivery
          => /\ isLoading' = isLoading
             /\ \A r \in Calls :
                  (Truthy(Head(down).id) /\ requestId[r] = Head(down).id /\ Registered(r))
                    => callState'[r] = "returned"
     /\ ScreenshotDelivery => isLoading' = FALSE]_vars

\* Witness of C7: a call has returned the backend's result, no call is in
\* flight, no screenshot is on its way, and the loading flag is still set.
C7_Witness ==
  /\ callState[1] = "returned" /\ resolveCount[1] = 1
  /\ callResult[1] = ServerResult("sendEmail", SomeArgs, currentEvents)
  /\ \A q \in Calls : ~InFlight(q)
  /\ down = <<>> /\ jobs = <<>> /\ up = <<>>
  /\ isLoading

\* C8: two requests that are pending together never share an identifier.
C8_PendingIdsUnique ==
  \A r, q \in Calls :
    (r # q /\ callState[r] = "awaiting" /\ callState[q] = "awaiting")
      => requestId[r] # requestId[q]

\* The step in which call r takes the bridge path.
Dispatched(r) == callState[r] = "idle" /\ callState'[r] = "awaiting"

\* C9: a call on the bridge path sends exactly one action message, carrying
\* an id no pending request uses and the call's tool name; and a tool_result
\* with the id of an awaiting request resolves it with the result it carries.
C9_RequestAndReplyMatch ==
  [][/\ \A r \in Calls :
          Dispatched(r)
            => /\ Len(up') = Len(up) + 1
               /\ up'[Len(up')].type = "action"
               /\ up'[Len(up')].id = requestId'[r]
               /\ up'[Len(up')].tool = callTool'[r]
               /\ \A q \in Calls : callState[q] = "awaiting" => requestId[q] # requestId'[r]
     /\ ReplyDelivery
          => \A r \in Calls :
               (callState[r] = "awaiting" /\ requestId[r] = Head(down).id)
                 => (callState'[r] = "returned" /\ callResult'[r] = Head(down).result)]_vars

\* The view each catalog tool shows (the backend renders the calendar for
\* bookMeeting, the simulation navigates to the sent folder for sendEmail).
ViewOf(name) == IF name \in {"openCalendar", "checkAvailability", "bookMeeting"} THEN "calendar" ELSE "email"

\* C10: a call made while the bridge is not open returns, after the simulated
\* delay, a canned result, with page showing the view of its tool, and it
\* sends nothing on the bridge and adds nothing to the registry.
C10_SimulationNavigates ==
  [][\A r \in Calls :
       /\ (callState[r] = "idle" /\ callState'[r] = "simwait")
            => UNCHANGED <<up, pendingRequests>>
       /\ (callState[r] = "simwait" /\ callState'[r] = "returned")
            => /\ UNCHANGED <<up, pendingRequests>>
               /\ callResult'[r] = SimResult(callTool[r], callArgs[r])
               /\ callTool[r] \in CatalogTools => page' = ViewOf(callTool[r])]_vars

(* ----------------------------------------------- claims: reconnection *)

\* A step in which the bridge socket closes (ws.onclose runs).
CloseStep == wsState # "CLOSED" /\ wsState' = "CLOSED"

\* C11: every close of the bridge socket, a failed attempt included, marks
\* the bridge disconnected and arms exactly one reconnect timer; never more
\* than one timer is armed; and a timer leaves the armed set only by
\* expiring, which starts one connection attempt from the closed state.
C11_OneReconnectTimer ==
  [][ /\ (CloseStep => (isConnected' = FALSE /\ reconnectTimers' = reconnectTimers + 1))
      /\ reconnectTimers' <= 1
      /\ (reconnectTimers' < reconnectTimers =>
            (wsState = "CLOSED" /\ wsState' = "CONNECTING" /\ reconnectTimers' = 0)) ]_vars

\* The bridge was open (its screenshot arrived), has closed, and its one
\* reconnect timer is armed.
C11_Witness == wsState = "CLOSED" /\ reconnectTimers = 1 /\ ~isConnected /\ screenshot # "none"

\* C12: there is no cap on the attempts: in every run either the bridge
\* socket keeps closing for ever, or the bridge ends up connected for good.
C12_EventuallyConnected == ([]<><<CloseStep>>_vars) \/ (<>[](isConnected = TRUE))

\* Connected again after a loss: call 1 went over the open bridge, call 2
\* was simulated because the bridge was not open, and the bridge is open.
C12_Witness == isConnected /\ wsState = "OPEN" /\ requestId[1] = "a" /\ callState[2] = "simwait"

(* ------------------------------------------ claims: malformed frames *)

\* C13: ws.onmessage drops a malformed frame: Browser State, the pending
\* registry, the calls and the connection state are as before, the socket
\* is open, the frames behind it are still queued, and whenever a frame is
\* queued on the open socket after a drop the handler takes it.
C13_MalformedDropped ==
  [][ /\ (Delivery /\ Malformed(Head(down))) =>
            /\ UNCHANGED <<viewVars, pendingRequests, callVars, bridgeVars>>
            /\ wsState' = "OPEN"
            /\ down' = Tail(down)
      /\ (droppedFrames > 0 /\ wsState = "OPEN" /\ down # <<>>) => ENABLED WsMessage ]_vars

\* A malformed frame has been dropped, a request is still registered, and
\* its reply is the next frame the open socket delivers.
C13_Witness ==
  /\ droppedFrames > 0
  /\ wsState = "OPEN"
  /\ down # <<>>
  /\ FrameKind(Head(down)) = "tool_result"
  /\ MapHas(pendingRequests, Head(down).id)

(* --------------------------------------------------- claims: playback *)

\* C14: chunks are scheduled in the arrival order of their messages: of two
\* scheduled chunks, the one whose message was delivered first has the
\* earlier start.
C14_ArrivalOrder ==
  \A i \in DOMAIN chunks, j \in DOMAIN chunks :
    chunks[i].msg < chunks[j].msg => chunks[i].start < chunks[j].start

\* No chunk starts before the end of the chunk scheduled just before it.
NoOverlap ==
  \A i \in DOMAIN chunks :
    i > 1 => chunks[i].start >= chunks[i - 1].start + chunks[i - 1].dur

\* C15: scheduled playback never overlaps and the timeline cursor never
\* decreases, whatever the messages and the order the decodes finish in.
C15_NoOverlap == [][nextStartTime' >= nextStartTime /\ NoOverlap']_vars

\* Two chunks are scheduled, the later message's first (its decode finished
\* first), and the second starts where the first ends.
C15_Witness ==
  /\ Len(chunks) = 2
  /\ chunks[1].msg > chunks[2].msg
  /\ chunks[2].start = chunks[1].start + chunks[1].dur

\* C16: every chunk's start time is at or after the output clock's time at
\* the moment source.start is called.
C16_StartNotInPast == \A i \in DOMAIN chunks : chunks[i].start >= chunks[i].now

(* ------------------------------------------- claims: the Live session *)

\* The responses registered for function call k of message h.
ResponsesFor(h, k) == {i \in DOMAIN responses : responses[i].id = <<h, k>>}

\* The handler of message h is past its loop over the function calls.
LoopOver(h) == hPc[h] \in {"decode", "done", "dead"}

\* C17: every function call of a tool-call event gets exactly one response,
\* and a response carries the identifier and name of its call and the result
\* executeTool returned for that call: once the handler's loop is over each
\* call of the event has one response, and no call ever has two or a
\* response with another call's result.
C17_OneResponsePerCall ==
  /\ \A h \in Msgs : LoopOver(h) =>
       \A k \in 1..(hDone[h] + Len(hCalls[h])) : Cardinality(ResponsesFor(h, k)) = 1
  /\ \A i \in DOMAIN responses, j \in DOMAIN responses :
       responses[i].id = responses[j].id => i = j
  /\ \A i \in DOMAIN responses :
       \E r \in Calls : /\ callFc[r] = [id |-> responses[i].id, name |-> responses[i].name]
                        /\ callState[r] = "returned"
                        /\ responses[i].result = callResult[r]

\* C18: the function calls of one event are dispatched independently: no
\* call of an event is held back while an earlier call of the same event is
\* in flight.
C18_CallsNotSerialized == \A h \in Msgs : hPc[h] = "call" => Len(hCalls[h]) = 1

LiveSessions == {s \in Sessions : session[s] \in {"connecting", "open"}}

\* C19: at most one Live session is connecting or open at any time.
C19_OneLiveSession == Cardinality(LiveSessions) <= 1

\* The last of connect() and disconnect() to have touched the audio contexts
\* is a disconnect() that ran to its end, and no connect() is under way.
AfterDisconnect == outputCtx = "closed" /\ discAwait = 0 /\ micRequests = 0

\* C20: after disconnect() has completed the session is closed and inert:
\* no stream is held, the active set is empty, the status is not connected,
\* no session is live, and no step starts an audio source, dispatches a tool
\* or registers a tool response.
C20_InertAfterDisconnect ==
  [][ /\ AfterDisconnect =>
           (~mediaStream /\ sources = {} /\ ~connected /\ LiveSessions = {})
      /\ (AfterDisconnect /\ AfterDisconnect') =>
           (chunks' = chunks /\ responses' = responses /\ callFc' = callFc) ]_vars

(* ----------------------------------- claims: failures of the session *)

\* A step in which a disconnect() that was suspended ends.
DisconnectEnds == discAwait # 0 /\ discAwait' = 0

\* C21: disconnect() is safe whatever came before it: no disconnect() ever
\* ends by throwing, and one that ends leaves the status not connected and
\* the active set empty.
C21_DisconnectSafe ==
  [][ /\ ~discRaised'
      /\ DisconnectEnds => (~connected' /\ sources' = {}) ]_vars

\* A step in which the error callback of a session fires.
ErrorCallback == \E s \in Sessions : session[s] # "errored" /\ session'[s] = "errored"

\* A step in which the connection attempt of a session is rejected.
AttemptRejected == \E s \in Sessions : session[s] # "rejected" /\ session'[s] = "rejected"

\* C22: a session failure is surfaced: after the error callback has fired,
\* or the connection attempt has been rejected, the latest log entry is an
\* error entry and the status is not connected.
C22_FailureSurfaced ==
  [][ (ErrorCallback \/ AttemptRejected) =>
        (sessionLog'.type = "error" /\ ~connected') ]_vars

\* A step in which a connect() ends in its catch block.
MicFails == micRequests' < micRequests /\ session' = session

GenericFailure(e) == e.type = "error" /\ e \notin {MissingKeyEntry, CatchEntry("NotAllowedError")}

\* C23: every failure of connect() is reported and leaves the status not
\* connected: a rejected getUserMedia logs the entry of its error, a
\* rejected session connection logs a generic failure entry.
C23_ConnectFailureReported ==
  [][ /\ MicFails => (sessionLog' \in {CatchEntry(e) : e \in MicErrors} /\ ~connected')
      /\ AttemptRejected => (GenericFailure(sessionLog') /\ ~connected') ]_vars

\* C24: connect() without a key logs the entry and changes nothing else.
C24_NoKeyNoAttempt ==
  [][ (sessionLog' = MissingKeyEntry /\ sessionLog # MissingKeyEntry) =>
        UNCHANGED <<dispatchVars, lifeVars, handlerVars, playVars, discRaised,
                    captureVars, mounted>> ]_vars

\* connect() without a key was the latest thing logged, with a session
\* open: the status is still connected and no microphone request is pending.
C24_Witness ==
  /\ sessionLog = MissingKeyEntry
  /\ connected
  /\ micRequests = 0
  /\ \E s \in Sessions : session[s] = "open"

(* ------------------------------- claims: the backend and the capture *)

\* A step in which the backend's message handler takes a request.
ServerTakes == srvConn = "ready" /\ srvConn' = "ready" /\ up # <<>> /\ up' = Tail(up)

\* The handler that took request m has sent its tool_result and waits before
\* its screenshot, or is suspended on the way to sending it.
HandlerAnswers(m) ==
  \/ jobs' = Append(jobs, RenderingJob(m))
  \/ /\ jobs' = Append(jobs, SettlingJob(m.id))
     /\ Len(down') > Len(down)
     /\ down'[Len(down')].type = "tool_result"
     /\ down'[Len(down')].id = m.id

\* C25: every action request that carries an id is answered: the handler
\* that takes it sends the tool_result of that id ahead of its screenshot,
\* whatever the tool and the args.
C25_EveryActionAnswered ==
  [][ (ServerTakes /\ Truthy(Head(up).id)) => HandlerAnswers(Head(up)) ]_vars

ZeroFrame(f) == \A i \in DOMAIN f : f[i] = 0

\* C26: the published loudness of the latest captured frame lies in [0, 1],
\* and is 0 when every sample of the frame is zero.
C26_LoudnessInRange ==
  /\ volume \in 0..Unit
  /\ (inputData # <<>> /\ ZeroFrame(inputData)) => volume = 0

\* A frame loud enough for the gained rms to exceed 1 was captured and the
\* published loudness is 1.
C26_Witness ==
  /\ inputData # <<>>
  /\ GainedRms(inputData) > Unit
  /\ volume = Unit

(* --------------------------------- claims: the loading indicator *)

\* A step in which call r returns from the simulation.
SimReturns(r) == callState[r] = "simwait" /\ callState'[r] = "returned"

\* C27: a simulated dispatch leaves the loading flag cleared: when a call
\* returns from the simulation and no call is in flight afterwards, the
\* flag is false, whatever the tool.
C27_SimulationClearsLoading ==
  [][\A r \in Calls :
       (SimReturns(r) /\ \A q \in Calls : ~InFlight(q)') => isLoading' = FALSE]_vars

\* C28: while the registry holds a request, the loading flag is true.
C28_LoadingWhilePending == pendingRequests # EmptyMap => isLoading

(* --------------------------------- claims: the bridge and the unmount *)

SocketLive == wsState \in {"CONNECTING", "OPEN"}

\* C29: while the hook is mounted, a reconnect timer is pending only when
\* no socket is connecting or open, at most one is pending, and none is
\* pending in the Connected state.
C29_SocketOrTimer ==
  mounted => /\ SocketLive => reconnectTimers = 0
             /\ reconnectTimers <= 1
             /\ isConnected => (wsState = "OPEN" /\ reconnectTimers = 0)

\* The Connected state after a reconnect: the screenshot of an earlier
\* connection is on display, the backend has not yet sent this connection's
\* first one, and no timer is pending.
C29_Witness ==
  /\ mounted /\ isConnected /\ wsState = "OPEN" /\ reconnectTimers = 0
  /\ screenshot = Jpeg
  /\ srvConn = "greeting"

\* C30: once the cleanup has run, no reconnect timer is pending and no
\* socket is connecting or open.
C30_QuietAfterCleanup == ~mounted => (reconnectTimers = 0 /\ ~SocketLive)

(* ----------------------------- claims: requests across a reconnect *)

\* Call r is awaiting with no socket open: executeTool registers a request
\* only on an open socket, so the request was pending when the bridge closed.
StalePending(r) == callState[r] = "awaiting" /\ wsState \in {"CLOSED", "CONNECTING"}

\* A step in which the socket closes, is replaced, or opens.
BridgeTurns == wsState' # wsState

\* A step in which call r is made with no socket open.
DispatchedOffline(r) == callState[r] = "idle" /\ callState'[r] # "idle" /\ wsState # "OPEN"

\* C31: a request pending when the bridge closes stays in the registry over
\* the close, the replacement of the socket and its opening, nothing is sent
\* for it again, its call is not moved to the simulation, and from then on
\* the call returns nothing but the timeout error; a call made while no
\* socket is open is simulated and registers nothing.
C31_PendingOutlivesClose ==
  /\ [][ /\ BridgeTurns => /\ pendingRequests' = pendingRequests
                           /\ callState' = callState
                           /\ Len(up') <= Len(up)
        /\ \A r \in Calls :
             /\ StalePending(r) => callState'[r] \in {"awaiting", "returned"}
             /\ DispatchedOffline(r) => /\ callState'[r] = "simwait"
                                        /\ up' = up
                                        /\ pendingRequests' = pendingRequests ]_vars
  /\ \A r \in Calls :
       [](StalePending(r) => [](callState[r] = "returned" => callResult[r] = TimedOutResult))

\* The replacement socket is connecting, the first call's request is still
\* in the registry, and the second call, made meanwhile, is in its
\* simulated delay.
C31_Witness ==
  /\ wsState = "CONNECTING"
  /\ callState[1] = "awaiting" /\ Registered(1)
  /\ callState[2] = "simwait"

(* ------------------------------ claims: the session after disconnect *)

\* The entry disconnect() logs as its last statement. connect() logs as its
\* first, so while this is the latest entry a disconnect() has completed
\* and connect() has not been called since.
StoppedEntry == LogEntry("info", "Stopped")

\* C32: once disconnect() has completed and until connect() is called
\* again, the status does not become connected and no microphone stream
\* is acquired.
C32_StaysDisconnected ==
  [][ sessionLog = StoppedEntry =>
        /\ connected' => connected
        /\ mediaStream' => mediaStream ]_vars

\* Chunk i was started on a younger clock than the chunk before it: the
\* output context was replaced between the two, by a connect().
FirstOnNewClock(i) == i > 1 /\ chunks[i].now < chunks[i - 1].now

\* C33: the timeline does not carry over to the next session: the first
\* chunk started on a new output clock starts no later than that clock's
\* time at the start, not at the cursor the previous session left.
C33_TimelineNotCarried ==
  \A i \in DOMAIN chunks : FirstOnNewClock(i) => chunks[i].start <= chunks[i].now

====
